---- MODULE Spec2Model ----
(***************************************************************************)
(* slog-envlogger: the RUST_LOG directive parser (parse_logging_spec), the *)
(* LogBuilder (filter / parse / build) and the EnvLogger drain (enabled /  *)
(* log), modelled from src/src/lib.rs.                                     *)
(*                                                                         *)
(* A string is a sequence of characters, so that split, trim, starts_with  *)
(* and len are computed as the code does.  An ASCII character is the       *)
(* one-character string of itself; a character beyond ASCII, or a control  *)
(* character without an escape, is the string "U+XXXX" of its code point   *)
(* (upper-case hexadecimal, four digits up to U+FFFF, five or six above),  *)
(* from which Utf8Len gives the number of bytes of its encoding.           *)
(***************************************************************************)
EXTENDS Integers, Sequences, FiniteSets, TLC

VARIABLES
    spec_in,      \* parse_logging_spec: the argument `spec`
    parsed,       \* parse_logging_spec: the returned (dirs, filter), or NotYet
    builder,      \* LogBuilder { directives, filter }, or Consumed after build
    accumulated,  \* history: the directives pushed by filter()/parse(), in call order
    replaced,     \* history: the builder's filter before its last parse call
    logger,       \* EnvLogger { directives, filter } returned by build, or NotYet
    chain,        \* EnvLoggers nested as drains: chain[1] wraps chain[2] ... wraps the sink
    frames,       \* per thread, the stack of log invocations in progress
    tl_buf,       \* per thread, TL_BUF: the RefCell's borrow flag and the String
    panicked,     \* per thread, whether a panic unwound it
    calls,        \* history: the log calls made on chain[1], in call order
    seen          \* history: per call and layer, the invocations of that layer's log

logvars == <<chain, frames, tl_buf, panicked, calls, seen>>
vars == <<spec_in, parsed, builder, accumulated, replaced, logger, chain, frames, tl_buf, panicked, calls, seen>>

(***************************************************************************)
(* Bounds of the model.                                                    *)
(***************************************************************************)
MaxTokens == 3        \* comma-separated tokens in a generated specification
MaxSlashes == 2       \* '/' characters in a generated specification
MaxDirectives == 3    \* directives accumulated by a builder before build
MaxDepth == 2         \* EnvLoggers nested in a chain of drains
MaxCalls == 2         \* log calls made on the outermost EnvLogger

(***************************************************************************)
(* Strings.                                                                *)
(***************************************************************************)
\* the digits of a code point written "U+XXXX": upper-case hexadecimal, four
\* digits up to U+FFFF, five or six (no leading zero) from U+10000
HexDigits == <<"0", "1", "2", "3", "4", "5", "6", "7", "8", "9", "A", "B", "C", "D", "E", "F">>

\* U+0000..U+007F written as code points (the control characters without an
\* escape): one byte of UTF-8
OneByteChars ==
    { "U+00" \o HexDigits[h] \o HexDigits[l] : h \in 1..8, l \in 1..16 }

\* U+0080..U+07FF: two bytes of UTF-8
TwoByteChars ==
    { "U+0" \o HexDigits[a] \o HexDigits[b] \o HexDigits[c] :
          a \in 1..8, b \in 1..16, c \in 1..16 } \ OneByteChars

\* char::len_utf8: 1 below U+0080, 2 below U+0800, 3 below U+10000, else 4
Utf8Len(c) ==
    IF Len(c) = 1 \/ c \in OneByteChars THEN 1
    ELSE IF c \in TwoByteChars THEN 2
    ELSE IF Len(c) = 6 THEN 3
    ELSE 4

\* str::len: the number of bytes of the UTF-8 encoding
RECURSIVE StrLen(_)
StrLen(s) == IF Len(s) = 0 THEN 0 ELSE Utf8Len(Head(s)) + StrLen(Tail(s))

\* str::starts_with
StartsWith(s, p) ==
    /\ Len(p) <= Len(s)
    /\ SubSeq(s, 1, Len(p)) = p

\* number of occurrences of the character c in s
CountChar(s, c) == Cardinality({i \in 1..Len(s) : s[i] = c})

\* str::split(c): the pieces between the occurrences of c, empty ones kept
RECURSIVE Split(_, _)
Split(s, c) ==
    IF \E i \in 1..Len(s) : s[i] = c
    THEN LET i == CHOOSE k \in 1..Len(s) :
                      /\ s[k] = c
                      /\ \A j \in 1..(k - 1) : s[j] # c
         IN <<SubSeq(s, 1, i - 1)>> \o Split(SubSeq(s, i + 1, Len(s)), c)
    ELSE <<s>>

\* the inverse of Split: the pieces joined by the character c
RECURSIVE Join(_, _)
Join(pieces, c) ==
    IF Len(pieces) = 0 THEN <<>>
    ELSE IF Len(pieces) = 1 THEN pieces[1]
    ELSE pieces[1] \o <<c>> \o Join(Tail(pieces), c)

\* char::is_whitespace: the characters of the Unicode property White_Space
IsWhitespace(c) ==
    c \in { "\t", "\n", "U+000B", "\f", "\r", " ", "U+0085", "U+00A0", "U+1680",
            "U+2000", "U+2001", "U+2002", "U+2003", "U+2004", "U+2005", "U+2006",
            "U+2007", "U+2008", "U+2009", "U+200A", "U+2028", "U+2029", "U+202F",
            "U+205F", "U+3000" }

\* str::trim: whitespace removed at both ends
RECURSIVE Trim(_)
Trim(s) ==
    IF Len(s) = 0 THEN s
    ELSE IF IsWhitespace(s[1]) THEN Trim(Tail(s))
    ELSE IF IsWhitespace(s[Len(s)]) THEN Trim(SubSeq(s, 1, Len(s) - 1))
    ELSE s

UpperChars == <<"A", "B", "C", "D", "E", "F", "G", "I", "L", "N", "O", "R", "T", "U", "W">>
LowerChars == <<"a", "b", "c", "d", "e", "f", "g", "i", "l", "n", "o", "r", "t", "u", "w">>

\* u8::to_ascii_uppercase on the letters of the level names
ToUpper(c) ==
    IF \E i \in 1..Len(LowerChars) : LowerChars[i] = c
    THEN UpperChars[CHOOSE i \in 1..Len(LowerChars) : LowerChars[i] = c]
    ELSE c

\* str::eq_ignore_ascii_case
EqIgnoreCase(s, t) ==
    /\ Len(s) = Len(t)
    /\ \A i \in 1..Len(s) : ToUpper(s[i]) = ToUpper(t[i])

(***************************************************************************)
(* Levels (slog::Level and slog::FilterLevel, by as_usize).                *)
(***************************************************************************)
Off == 0
Critical == 1
Error == 2
Warning == 3
Info == 4
Debug == 5
Trace == 6

Levels == Critical..Trace          \* slog::Level, the severity of an event
FilterLevels == Off..Trace         \* slog::FilterLevel, the ceiling of a directive

\* FilterLevel::max()
FilterLevelMax == Trace

NoLevel == -1

LOG_LEVEL_NAMES ==
    << <<"O", "F", "F">>,
       <<"C", "R", "I", "T", "I", "C", "A", "L">>,
       <<"E", "R", "R", "O", "R">>,
       <<"W", "A", "R", "N">>,
       <<"I", "N", "F", "O">>,
       <<"D", "E", "B", "U", "G">>,
       <<"T", "R", "A", "C", "E">> >>

LOG_LEVEL_SHORT_NAMES ==
    << <<"O", "F", "F">>,
       <<"C", "R", "I", "T">>,
       <<"E", "R", "R", "O">>,
       <<"W", "A", "R", "N">>,
       <<"I", "N", "F", "O">>,
       <<"D", "E", "B", "G">>,
       <<"T", "R", "C", "E">> >>

Min(a, b) == IF a <= b THEN a ELSE b

\* slog: position of the first name of which needle is a case-insensitive
\* prefix (the name is cut to the needle's length before the comparison),
\* 0 when there is none or the needle is empty
IndexOfStrIgnoreCase(haystack, needle) ==
    LET hit(i) == EqIgnoreCase(SubSeq(haystack[i], 1, Min(StrLen(needle), Len(haystack[i]))), needle)
    IN IF Len(needle) = 0 \/ ~(\E i \in 1..Len(haystack) : hit(i))
       THEN 0
       ELSE CHOOSE i \in 1..Len(haystack) : hit(i) /\ \A j \in 1..(i - 1) : ~hit(j)

\* <FilterLevel as FromStr>::from_str, as called by `part0.parse()` and
\* `part1.parse()`: the level, or NoLevel for Err
LevelFromStr(s) ==
    LET long == IndexOfStrIgnoreCase(LOG_LEVEL_NAMES, s)
        short == IndexOfStrIgnoreCase(LOG_LEVEL_SHORT_NAMES, s)
    IN IF long # 0 THEN long - 1
       ELSE IF short # 0 THEN short - 1
       ELSE NoLevel

(***************************************************************************)
(* Directives and the content filter.                                      *)
(***************************************************************************)
None == [some |-> FALSE]
Some(v) == [some |-> TRUE, val |-> v]

\* struct LogDirective { name: Option<String>, level: FilterLevel }
LogDirective(name, level) == [name |-> name, level |-> level]

\* filter::Filter::new: the pattern compiles unless its group parentheses do
\* not pair up; the compiled filter keeps the pattern
PatternCompiles(pattern) == CountChar(pattern, "(") = CountChar(pattern, ")")

FilterNew(pattern) == IF PatternCompiles(pattern) THEN Some(pattern) ELSE None

\* filter::Filter::is_match: unanchored search of the pattern in the text;
\* the patterns of this model hold no metacharacter, so the regex and the
\* plain-substring variant agree
IsMatch(pattern, text) ==
    \E i \in 0..(Len(text) - Len(pattern)) :
        SubSeq(text, i + 1, i + Len(pattern)) = pattern

(***************************************************************************)
(* parse_logging_spec.                                                     *)
(***************************************************************************)
\* variant: a bare token is never tried as a level
ParseTokenBareIsModule(s) ==
    LET parts == Split(s, "=")
        part0 == parts[1]
        part1 == Trim(parts[2])
    IN IF StrLen(s) = 0 THEN <<>>
       ELSE IF Len(parts) = 1
            THEN << LogDirective(Some(part0), FilterLevelMax) >>
       ELSE IF Len(parts) = 2 /\ part1 = <<>>
            THEN << LogDirective(Some(part0), FilterLevelMax) >>
       ELSE IF Len(parts) = 2
            THEN IF LevelFromStr(part1) # NoLevel
                 THEN << LogDirective(Some(part0), LevelFromStr(part1)) >>
                 ELSE <<>>
       ELSE <<>>

\* one turn of the loop over m.split(','): the directives the token s pushes
ParseToken(s) ==
    LET parts == Split(s, "=")
        part0 == parts[1]
        part1 == Trim(parts[2])
    IN IF StrLen(s) = 0 THEN <<>>
       ELSE IF Len(parts) = 1
            THEN IF LevelFromStr(part0) # NoLevel
                 THEN << LogDirective(None, LevelFromStr(part0)) >>
                 ELSE << LogDirective(Some(part0), FilterLevelMax) >>
       ELSE IF Len(parts) = 2 /\ part1 = <<>>
            THEN << LogDirective(Some(part0), FilterLevelMax) >>
       ELSE IF Len(parts) = 2
            THEN IF LevelFromStr(part1) # NoLevel
                 THEN << LogDirective(Some(part0), LevelFromStr(part1)) >>
                 ELSE <<>>
       ELSE <<>>

\* variant: a token that pushes nothing ends the loop
RECURSIVE ParseTokensUntilBad(_)
ParseTokensUntilBad(tokens) ==
    IF Len(tokens) = 0 THEN <<>>
    ELSE IF Len(Head(tokens)) # 0 /\ ParseToken(Head(tokens)) = <<>> THEN <<>>
    ELSE ParseToken(Head(tokens)) \o ParseTokensUntilBad(Tail(tokens))

\* the loop over the tokens: every token's directives, in token order
RECURSIVE ParseTokens(_)
ParseTokens(tokens) ==
    IF Len(tokens) = 0 THEN <<>>
    ELSE ParseToken(Head(tokens)) \o ParseTokens(Tail(tokens))

\* the directives of the first '/'-segment
ParseMods(m) == ParseTokens(Split(m, ","))

\* variant: segments behind the second are ignored
parse_logging_spec_lenient(spec) ==
    LET parts == Split(spec, "/")
        mods == parts[1]
    IN [dirs |-> ParseMods(mods),
        filter |-> IF Len(parts) >= 2 THEN FilterNew(parts[2]) ELSE None]

parse_logging_spec(spec) ==
    LET parts == Split(spec, "/")
        mods == parts[1]
    IN IF Len(parts) >= 3
       THEN [dirs |-> <<>>, filter |-> None]
       ELSE [dirs |-> ParseMods(mods),
             filter |-> IF Len(parts) >= 2 THEN FilterNew(parts[2]) ELSE None]

(***************************************************************************)
(* LogBuilder.                                                             *)
(***************************************************************************)
\* LogBuilder::new
LogBuilderNew == [directives |-> <<>>, filter |-> None]

\* LogBuilder::filter
filter(b, module, level) ==
    [b EXCEPT !.directives = Append(@, LogDirective(module, level))]

\* variant: a parse that yields no filter keeps the one installed before
parse_keeps_filter(b, filters) ==
    LET r == parse_logging_spec(filters)
    IN [directives |-> b.directives \o r.dirs,
        filter |-> IF r.filter.some THEN r.filter ELSE b.filter]

\* LogBuilder::parse
parse(b, filters) ==
    LET r == parse_logging_spec(filters)
    IN [directives |-> b.directives \o r.dirs, filter |-> r.filter]

\* the sort key of build: a.name.as_ref().map(|a| a.len()).unwrap_or(0)
NameLen(d) == IF d.name.some THEN StrLen(d.name.val) ELSE 0

\* variant: d placed before the elements of equal key (an unstable sort)
RECURSIVE InsertSortedBeforeEqual(_, _)
InsertSortedBeforeEqual(sorted, d) ==
    IF Len(sorted) = 0 THEN <<d>>
    ELSE IF NameLen(sorted[Len(sorted)]) < NameLen(d) THEN Append(sorted, d)
    ELSE Append(InsertSortedBeforeEqual(SubSeq(sorted, 1, Len(sorted) - 1), d),
                sorted[Len(sorted)])

\* d placed behind every element whose key is not greater than its own
RECURSIVE InsertSorted(_, _)
InsertSorted(sorted, d) ==
    IF Len(sorted) = 0 THEN <<d>>
    ELSE IF NameLen(sorted[Len(sorted)]) <= NameLen(d) THEN Append(sorted, d)
    ELSE Append(InsertSorted(SubSeq(sorted, 1, Len(sorted) - 1), d), sorted[Len(sorted)])

\* Vec::sort_by on the key NameLen: a stable sort
RECURSIVE SortByNameLen(_)
SortByNameLen(dirs) ==
    IF Len(dirs) = 0 THEN <<>>
    ELSE InsertSorted(SortByNameLen(SubSeq(dirs, 1, Len(dirs) - 1)), dirs[Len(dirs)])

\* variant: the default directive allows warnings too
build_default_warning(b) ==
    [directives |-> IF Len(b.directives) = 0
                    THEN << LogDirective(None, Warning) >>
                    ELSE SortByNameLen(b.directives),
     filter |-> b.filter]

\* variant: no default directive is installed
build_without_default(b) ==
    [directives |-> SortByNameLen(b.directives), filter |-> b.filter]

\* LogBuilder::build: the EnvLogger's directives and filter
build(b) ==
    [directives |-> IF Len(b.directives) = 0
                    THEN << LogDirective(None, Error) >>
                    ELSE SortByNameLen(b.directives),
     filter |-> b.filter]

(***************************************************************************)
(* EnvLogger::enabled.                                                     *)
(***************************************************************************)
\* variant: the scan runs from the front, the shortest name first
Matching(dirs, i, module) ==
    { k \in 1..i : ~dirs[k].name.some \/ StartsWith(module, dirs[k].name.val) }

ScanFromFront(dirs, i, module) ==
    IF Matching(dirs, i, module) = {} THEN 0
    ELSE CHOOSE k \in Matching(dirs, i, module) :
            \A j \in Matching(dirs, i, module) : k <= j

\* the reverse scan from position i: the position of the first directive met
\* that is global or whose name starts the module path, 0 on fall-through
RECURSIVE Scan(_, _, _)
Scan(dirs, i, module) ==
    IF i = 0 THEN 0
    ELSE IF dirs[i].name.some /\ ~StartsWith(module, dirs[i].name.val)
         THEN Scan(dirs, i - 1, module)
         ELSE i

\* variant: the comparison is off by one rank
enabled_off_by_one(lg, level, module) ==
    LET i == Scan(lg.directives, Len(lg.directives), module)
    IN IF i = 0 THEN FALSE ELSE level <= lg.directives[i].level + 1

enabled(lg, level, module) ==
    LET i == Scan(lg.directives, Len(lg.directives), module)
    IN IF i = 0 THEN FALSE ELSE level <= lg.directives[i].level

(***************************************************************************)
(* Inputs.                                                                 *)
(***************************************************************************)
SeqsUpTo(S, n) == UNION {[1..k -> S] : k \in 0..n}

\* comma-separated tokens: empty, bare module, bare level, empty level,
\* module=level, unknown level, two '=', blank level, level to be trimmed
Tokens ==
    { <<>>,
      <<"a">>,
      <<"w", "a", "r", "n">>,
      <<"a", "b", "=">>,
      <<"a", "b", "=", "o", "f", "f">>,
      <<"a", "=", "b">>,
      <<"a", "=", "o", "f", "f", "=", "w", "a", "r", "n">>,
      <<"b", "=", " ">>,
      <<"b", "=", " ", "w", "a", "r", "n", "\n">> }

\* '/'-segments behind the directives: a pattern, and one that does not compile
Patterns == { <<"a">>, <<"(">> }

SpecStrings(maxTokens, maxSlashes) ==
    { Join(<<Join(toks, ",")>> \o segs, "/") :
        toks \in SeqsUpTo(Tokens, maxTokens), segs \in SeqsUpTo(Patterns, maxSlashes) }

\* arguments of LogBuilder::filter
FilterModules ==
    { None, Some(<<>>), Some(<<"a">>), Some(<<"a", "b">>), Some(<<"b">>), Some(<<"U+00E9">>) }
FilterArgLevels == { Off, Error, Trace }

\* arguments of LogBuilder::parse
ParseArgs == SpecStrings(1, 1) \cup { <<"a", "/", "a", "/", "a">> }

\* module paths of events
Modules == { <<>>, <<"a">>, <<"a", "b">>, <<"a", "b", "a">>, <<"b">>, <<"U+00E9">> }

\* threads that log
Threads == {"t1", "t2"}

\* values of the RUST_LOG environment variable, None when it is not set
RustLog ==
    { None,
      Some(<<"w", "a", "r", "n", "/", "a">>),
      Some(<<"a", "b", "=">>),
      Some(<<"a", "=", "o", "f", "f", ",", "e", "r", "r", "o", "r">>) }

\* records: level, module path and message
Records ==
    [level : {Error, Info}, module : {<<"a", "b">>, <<"b">>}, msg : {<<"a">>, <<"b">>}]

\* key-value lists, opaque
KVLists == {"kv1", "kv2"}

\* results of the sink's log
Ok == "Ok"
SinkResults == {Ok, "Err"}

\* a log invocation that has not returned; one that a panic unwound
Pending == "pending"
Panic == "panic"

\* a result not returned yet; a builder moved into build
NotYet == [pending |-> TRUE]
Consumed == [consumed |-> TRUE]

\* no EnvLogger is in use as a drain
NoLogging ==
    /\ chain = <<>>
    /\ frames = [t \in Threads |-> <<>>]
    /\ tl_buf = [t \in Threads |-> [borrowed |-> FALSE, text |-> <<>>]]
    /\ panicked = [t \in Threads |-> FALSE]
    /\ calls = <<>>
    /\ seen = <<>>

(***************************************************************************)
(* Specification of the pure parser: the argument is drawn, then parsed.   *)
(***************************************************************************)
InitParse ==
    /\ spec_in \in SpecStrings(MaxTokens, MaxSlashes)
    /\ parsed = NotYet
    /\ builder = Consumed
    /\ accumulated = <<>>
    /\ replaced = None
    /\ logger = NotYet
    /\ NoLogging

ParseLoggingSpec ==
    /\ parsed = NotYet
    /\ parsed' = parse_logging_spec(spec_in)
    /\ UNCHANGED <<spec_in, builder, accumulated, replaced, logger>>
    /\ UNCHANGED logvars

NextParse == ParseLoggingSpec

SpecParse == InitParse /\ [][NextParse]_vars

(***************************************************************************)
(* Specification of the builder: new, then filter / parse, then build.     *)
(***************************************************************************)
Init ==
    /\ spec_in = <<>>
    /\ parsed = NotYet
    /\ builder = LogBuilderNew
    /\ accumulated = <<>>
    /\ replaced = None
    /\ logger = NotYet
    /\ NoLogging

\* builder.filter(module, level)
Filtering(module, level) ==
    /\ builder # Consumed
    /\ Len(builder.directives) < MaxDirectives
    /\ builder' = filter(builder, module, level)
    /\ accumulated' = builder'.directives

\* builder.parse(filters)
Parsing(filters) ==
    /\ builder # Consumed
    /\ Len(parse(builder, filters).directives) <= MaxDirectives
    /\ builder' = parse(builder, filters)
    /\ accumulated' = builder'.directives

DoFilter ==
    /\ \E module \in FilterModules, level \in FilterArgLevels : Filtering(module, level)
    /\ UNCHANGED <<spec_in, parsed, replaced, logger>>
    /\ UNCHANGED logvars

DoParse ==
    /\ \E filters \in ParseArgs : Parsing(filters)
    /\ UNCHANGED <<spec_in, parsed, replaced, logger>>
    /\ UNCHANGED logvars

DoBuild ==
    /\ builder # Consumed
    /\ logger' = build(builder)
    /\ builder' = Consumed
    /\ UNCHANGED <<spec_in, parsed, accumulated, replaced>>
    /\ UNCHANGED logvars

Next == DoFilter \/ DoParse \/ DoBuild

Spec == Init /\ [][Next]_vars

(***************************************************************************)
(* Specification of the calls on a builder, the last parse call noted: its *)
(* argument, what parse_logging_spec returned for it, and the content      *)
(* filter the builder held before it.                                      *)
(***************************************************************************)
CallModules == { None, Some(<<"a">>) }
CallLevels == { Off, Trace }

\* no '/', a pattern, a pattern that does not compile, too many '/'
CallSpecs ==
    { <<>>,
      <<"a">>,
      <<"/", "a">>,
      <<"w", "a", "r", "n", "/", "b">>,
      <<"a", "b", "=", "/", "(">>,
      <<"a", "/", "a", "/", "a">> }

CallFilter ==
    /\ \E module \in CallModules, level \in CallLevels : Filtering(module, level)
    /\ UNCHANGED <<spec_in, parsed, replaced, logger>>
    /\ UNCHANGED logvars

CallParse ==
    /\ \E filters \in CallSpecs :
          /\ Parsing(filters)
          /\ spec_in' = filters
          /\ parsed' = parse_logging_spec(filters)
          /\ replaced' = builder.filter
    /\ UNCHANGED logger
    /\ UNCHANGED logvars

NextCalls == CallFilter \/ CallParse

SpecCalls == Init /\ [][NextCalls]_vars

(***************************************************************************)
(* EnvLogger as a drain: new and log.                                      *)
(***************************************************************************)
\* new / EnvLogger::new: the builder parses RUST_LOG if it is set, then builds
EnvLoggerNew(rust_log) ==
    IF rust_log.some
    THEN build(parse(LogBuilderNew, rust_log.val))
    ELSE build(LogBuilderNew)

\* the two gates of log: the level gate, then the content filter if installed
Dropped(lg, info) ==
    \/ ~enabled(lg, info.level, info.module)
    \/ lg.filter.some /\ ~IsMatch(lg.filter.val, info.msg)

\* the layer whose log the top frame of thread t runs: the sink is layer
\* Len(chain) + 1
Top(t) == frames[t][Len(frames[t])]
IsSink(layer) == layer = Len(chain) + 1

\* the call of thread t in progress: its last one
CurCall(t) ==
    CHOOSE c \in 1..Len(calls) :
        /\ calls[c].thread = t
        /\ \A k \in (c + 1)..Len(calls) : calls[k].thread # t

\* an invocation of a layer's log noted in the history
Invoked(s, c, layer, info, val) ==
    [s EXCEPT ![c][layer] = [n |-> @.n + 1, info |-> info, val |-> val, ret |-> Pending]]

\* the frames of thread t after its top frame returned res: the caller, if
\* any, resumes behind its call of drain.log
Returning(t, res) ==
    LET rest == SubSeq(frames[t], 1, Len(frames[t]) - 1)
    IN IF Len(rest) = 0 THEN rest
       ELSE [rest EXCEPT ![Len(rest)] = [@ EXCEPT !.pc = "drain_returned", !.res = res]]

InitLog ==
    /\ spec_in = <<>>
    /\ parsed = NotYet
    /\ builder = Consumed
    /\ accumulated = <<>>
    /\ replaced = None
    /\ logger = NotYet
    /\ chain \in UNION { [1..k -> {EnvLoggerNew(e) : e \in RustLog}] : k \in 1..MaxDepth }
    /\ frames = [t \in Threads |-> <<>>]
    /\ tl_buf = [t \in Threads |-> [borrowed |-> FALSE, text |-> <<>>]]
    /\ panicked = [t \in Threads |-> FALSE]
    /\ calls = <<>>
    /\ seen = <<>>

\* a thread calls log on the outermost EnvLogger
LogCall(t) ==
    /\ frames[t] = <<>>
    /\ ~panicked[t]
    /\ Len(calls) < MaxCalls
    /\ \E info \in Records, val \in KVLists :
          /\ calls' = Append(calls, [thread |-> t, info |-> info, val |-> val])
          /\ frames' = [frames EXCEPT ![t] =
                            << [layer |-> 1, pc |-> "enter", info |-> info, val |-> val,
                                res |-> Pending] >>]
          /\ seen' = Append(seen,
                            [l \in 1..(Len(chain) + 1) |->
                                IF l = 1
                                THEN [n |-> 1, info |-> info, val |-> val, ret |-> Pending]
                                ELSE [n |-> 0, info |-> info, val |-> val, ret |-> Pending]])
    /\ UNCHANGED <<chain, tl_buf, panicked>>

\* EnvLogger::log up to its call of self.drain.log: the gates return Ok(()),
\* borrow_mut panics when TL_BUF is borrowed already, else the buffer is
\* borrowed and the drain's log is entered
LogEnter(t) ==
    /\ frames[t] # <<>>
    /\ Top(t).pc = "enter"
    /\ ~IsSink(Top(t).layer)
    /\ LET f == Top(t)
           c == CurCall(t)
       IN IF Dropped(chain[f.layer], f.info)
          THEN /\ frames' = [frames EXCEPT ![t] = Returning(t, Ok)]
               /\ seen' = [seen EXCEPT ![c][f.layer].ret = Ok]
               /\ UNCHANGED <<tl_buf, panicked>>
          ELSE IF tl_buf[t].borrowed
          THEN /\ frames' = [frames EXCEPT ![t] = <<>>]
               /\ seen' = [seen EXCEPT ![c] =
                              [l \in DOMAIN seen[c] |->
                                  IF l <= f.layer THEN [seen[c][l] EXCEPT !.ret = Panic]
                                  ELSE seen[c][l]]]
               /\ tl_buf' = [tl_buf EXCEPT ![t].borrowed = FALSE]
               /\ panicked' = [panicked EXCEPT ![t] = TRUE]
          ELSE /\ tl_buf' = [tl_buf EXCEPT ![t].borrowed = TRUE]
               /\ frames' = [frames EXCEPT ![t] =
                                Append([@ EXCEPT ![Len(@)].pc = "in_drain"],
                                       [layer |-> f.layer + 1, pc |-> "enter",
                                        info |-> f.info, val |-> f.val, res |-> Pending])]
               /\ seen' = Invoked(seen, c, f.layer + 1, f.info, f.val)
               /\ UNCHANGED panicked
    /\ UNCHANGED <<chain, calls>>

\* the sink's log: it takes the record and returns Ok or its error
SinkLog(t) ==
    /\ frames[t] # <<>>
    /\ Top(t).pc = "enter"
    /\ IsSink(Top(t).layer)
    /\ \E res \in SinkResults :
          /\ frames' = [frames EXCEPT ![t] = Returning(t, res)]
          /\ seen' = [seen EXCEPT ![CurCall(t)][Top(t).layer].ret = res]
    /\ UNCHANGED <<chain, tl_buf, panicked, calls>>

\* EnvLogger::log behind its call of self.drain.log: buf.clear(), the borrow
\* ends, res is returned
LogLeave(t) ==
    /\ frames[t] # <<>>
    /\ Top(t).pc = "drain_returned"
    /\ tl_buf' = [tl_buf EXCEPT ![t] = [borrowed |-> FALSE, text |-> <<>>]]
    /\ frames' = [frames EXCEPT ![t] = Returning(t, Top(t).res)]
    /\ seen' = [seen EXCEPT ![CurCall(t)][Top(t).layer].ret = Top(t).res]
    /\ UNCHANGED <<chain, panicked, calls>>

NextLog ==
    \E t \in Threads :
        \/ /\ LogCall(t)
           /\ UNCHANGED <<spec_in, parsed, builder, accumulated, replaced, logger>>
        \/ /\ LogEnter(t)
           /\ UNCHANGED <<spec_in, parsed, builder, accumulated, replaced, logger>>
        \/ /\ SinkLog(t)
           /\ UNCHANGED <<spec_in, parsed, builder, accumulated, replaced, logger>>
        \/ /\ LogLeave(t)
           /\ UNCHANGED <<spec_in, parsed, builder, accumulated, replaced, logger>>

SpecLog == InitLog /\ [][NextLog]_vars

(***************************************************************************)
(* Vocabulary of the properties.                                           *)
(***************************************************************************)
Built == logger # NotYet
Returned == parsed # NotYet

\* the directive is global, or its name is a prefix of the module path
Matches(d, module) == ~d.name.some \/ StartsWith(module, d.name.val)

\* positions of the matching directives whose name no matching one exceeds
LongestMatching(dirs, module) ==
    { i \in 1..Len(dirs) :
        /\ Matches(dirs[i], module)
        /\ \A j \in 1..Len(dirs) :
              Matches(dirs[j], module) => NameLen(dirs[j]) <= NameLen(dirs[i]) }

\* the comma-separated tokens of the first '/'-segment of a specification
SpecTokens(spec) == Split(Split(spec, "/")[1], ",")

\* the text behind the first '=' of a token, trimmed
LevelPart(tok) ==
    LET k == CHOOSE i \in 1..Len(tok) : tok[i] = "=" /\ \A j \in 1..(i - 1) : tok[j] # "="
    IN Trim(SubSeq(tok, k + 1, Len(tok)))

\* the text before the first '=' of a token
ModulePart(tok) ==
    LET k == CHOOSE i \in 1..Len(tok) : tok[i] = "=" /\ \A j \in 1..(i - 1) : tok[j] # "="
    IN SubSeq(tok, 1, k - 1)

\* more than one '=', or a level part that is not blank and names no level
Malformed(tok) ==
    \/ CountChar(tok, "=") > 1
    \/ /\ CountChar(tok, "=") = 1
       /\ LevelPart(tok) # <<>>
       /\ LevelFromStr(LevelPart(tok)) = NoLevel

\* the specification with its malformed tokens taken out
WithoutMalformed(spec) ==
    LET segs == Split(spec, "/")
        good(tok) == ~Malformed(tok)
    IN Join(<<Join(SelectSeq(SpecTokens(spec), good), ",")>> \o Tail(segs), "/")

\* the directive a well-formed, non-empty token stands for
ExpectedDirective(tok) ==
    IF CountChar(tok, "=") = 0
    THEN IF LevelFromStr(tok) # NoLevel
         THEN LogDirective(None, LevelFromStr(tok))
         ELSE LogDirective(Some(tok), Trace)
    ELSE IF LevelPart(tok) = <<>>
         THEN LogDirective(Some(ModulePart(tok)), Trace)
         ELSE LogDirective(Some(ModulePart(tok)), LevelFromStr(LevelPart(tok)))

(***************************************************************************)
(* C1: for every built logger, module path and level, enabled equals       *)
(* 'level <= L' with L the level of a directive whose name is the longest  *)
(* that is a prefix of the module path, a global directive counting as the *)
(* empty prefix; with no matching directive enabled is false.              *)
(***************************************************************************)
C1_LongestPrefixDecides ==
    Built =>
        \A module \in Modules :
            LET dirs == logger.directives
                longest == LongestMatching(dirs, module)
            IN IF longest = {}
               THEN \A level \in Levels : ~enabled(logger, level, module)
               ELSE \E i \in longest :
                       \A level \in Levels :
                           enabled(logger, level, module) <=> level <= dirs[i].level

\* a short and a longer prefix of one module path, the short one the more
\* permissive, and the longer one decides
C1_Witness ==
    /\ Built
    /\ \E module \in Modules :
         \E i, j \in 1..Len(logger.directives) :
            LET dirs == logger.directives
            IN /\ Matches(dirs[i], module) /\ Matches(dirs[j], module)
               /\ NameLen(dirs[i]) < NameLen(dirs[j])
               /\ dirs[j].level < dirs[i].level
               /\ j \in LongestMatching(dirs, module)
               /\ ~enabled(logger, dirs[i].level, module)
               /\ dirs[i].level \in Levels

(***************************************************************************)
(* C2 as stated: a directive (P, Off) in the list disables every level for *)
(* every module path that starts with P, whatever the other directives.    *)
(***************************************************************************)
C2_OffDisablesWhateverElse ==
    Built =>
        \A i \in 1..Len(logger.directives) :
            LET d == logger.directives[i]
            IN (d.name.some /\ d.level = Off) =>
                  \A module \in Modules :
                      StartsWith(module, d.name.val) =>
                          \A level \in Levels : ~enabled(logger, level, module)

(***************************************************************************)
(* C2 amended: a directive (P, Off) disables every level, Error and        *)
(* Critical included, for every module path that starts with P and that no *)
(* directive behind it in the logger's sorted list matches (none with a    *)
(* longer name, none with a name of the same length added later).          *)
(***************************************************************************)
C2_OffDisablesWhenDeciding ==
    Built =>
        \A i \in 1..Len(logger.directives) :
            LET dirs == logger.directives
            IN (dirs[i].name.some /\ dirs[i].level = Off) =>
                  \A module \in Modules :
                      ( /\ StartsWith(module, dirs[i].name.val)
                        /\ \A j \in (i + 1)..Len(dirs) : ~Matches(dirs[j], module) )
                      => \A level \in Levels : ~enabled(logger, level, module)

\* an Off directive decides for a module path that a more permissive, less
\* specific directive matches too
C2_Witness ==
    /\ Built
    /\ \E i, k \in 1..Len(logger.directives), module \in Modules :
          LET dirs == logger.directives
          IN /\ dirs[i].name.some /\ dirs[i].level = Off
             /\ StartsWith(module, dirs[i].name.val)
             /\ \A j \in (i + 1)..Len(dirs) : ~Matches(dirs[j], module)
             /\ k < i /\ Matches(dirs[k], module) /\ dirs[k].level = Trace
             /\ ~enabled(logger, Critical, module)

(***************************************************************************)
(* C3: build on an empty accumulated list gives the single directive       *)
(* (None, Error): for every module path an Error event is enabled and      *)
(* Warning, Info, Debug and Trace events are not.                          *)
(***************************************************************************)
C3_ErrorsOnlyDefault ==
    (Built /\ accumulated = <<>>) =>
        /\ logger.directives = << LogDirective(None, Error) >>
        /\ \A module \in Modules :
              /\ enabled(logger, Error, module)
              /\ \A level \in {Warning, Info, Debug, Trace} : ~enabled(logger, level, module)

\* built with nothing accumulated although a parse call ran (it left a filter)
C3_Witness ==
    /\ Built
    /\ accumulated = <<>>
    /\ logger.filter.some
    /\ enabled(logger, Error, <<"a", "b">>)

(***************************************************************************)
(* C9: build on a non-empty accumulated list keeps the directives, orders  *)
(* them by non-decreasing name length (str::len, None is 0) and keeps the  *)
(* insertion order among equal lengths; so the deciding directive is the   *)
(* last added of those with its name.                                      *)
(***************************************************************************)
C9_StableSortByLength ==
    (Built /\ accumulated # <<>>) =>
        LET dirs == logger.directives
            ofLen(s, k) == LET has(d) == NameLen(d) = k IN SelectSeq(s, has)
            named(s, n) == LET has(d) == d.name = n IN SelectSeq(s, has)
        IN /\ Len(dirs) = Len(accumulated)
           /\ \A i \in 1..(Len(dirs) - 1) : NameLen(dirs[i]) <= NameLen(dirs[i + 1])
           /\ \A i \in 1..Len(accumulated) :
                 ofLen(dirs, NameLen(accumulated[i])) = ofLen(accumulated, NameLen(accumulated[i]))
           /\ \A module \in Modules :
                 LET i == Scan(dirs, Len(dirs), module)
                 IN i # 0 =>
                       LET same == named(accumulated, dirs[i].name)
                       IN dirs[i] = same[Len(same)]

\* the sort moved a directive, two directives of one name differ in level,
\* and the one added last decides
C9_Witness ==
    /\ Built
    /\ accumulated # <<>>
    /\ logger.directives # accumulated
    /\ \E i, j \in 1..Len(accumulated), module \in Modules :
          /\ i < j
          /\ accumulated[i].name = accumulated[j].name
          /\ accumulated[i].level # accumulated[j].level
          /\ \A k \in (j + 1)..Len(accumulated) : accumulated[k].name # accumulated[j].name
          /\ Scan(logger.directives, Len(logger.directives), module) # 0
          /\ logger.directives[Scan(logger.directives, Len(logger.directives), module)]
                = accumulated[j]

(***************************************************************************)
(* C10 as stated: in a built logger the reverse scan finds a matching      *)
(* directive for every module path.                                        *)
(***************************************************************************)
C10_ScanAlwaysFinds ==
    Built =>
        \A module \in Modules : Scan(logger.directives, Len(logger.directives), module) # 0

(***************************************************************************)
(* C10 amended: build never produces an empty list; the scan falls through *)
(* exactly when no directive of the list is global or has a name that is a *)
(* prefix of the module path, which a non-empty list of named directives   *)
(* allows, and enabled is then false; with a global directive in the list  *)
(* some directive decides for every module path.                           *)
(***************************************************************************)
C10_FallThroughIffNoMatch ==
    Built =>
        LET dirs == logger.directives
        IN /\ Len(dirs) > 0
           /\ \A module \in Modules :
                 /\ Scan(dirs, Len(dirs), module) = 0
                       <=> \A i \in 1..Len(dirs) : ~Matches(dirs[i], module)
                 /\ Scan(dirs, Len(dirs), module) = 0
                       => \A level \in Levels : ~enabled(logger, level, module)
                 /\ (\E i \in 1..Len(dirs) : ~dirs[i].name.some)
                       => Scan(dirs, Len(dirs), module) # 0

\* a non-empty list on which the scan falls through for a module path
C10_Witness ==
    /\ Built
    /\ Len(logger.directives) > 1
    /\ \E module \in Modules :
          /\ Scan(logger.directives, Len(logger.directives), module) = 0
          /\ ~enabled(logger, Critical, module)

(***************************************************************************)
(* C4: a specification with two or more '/' yields no directive and no     *)
(* filter, even if its first segment holds well-formed directives and its  *)
(* second a valid pattern.                                                 *)
(***************************************************************************)
C4_TooManySlashesRejectsAll ==
    (Returned /\ CountChar(spec_in, "/") >= 2) =>
        parsed = [dirs |-> <<>>, filter |-> None]

\* rejected although the first segment alone gives directives and the second
\* segment compiles
C4_Witness ==
    /\ Returned
    /\ CountChar(spec_in, "/") >= 2
    /\ parse_logging_spec(Split(spec_in, "/")[1]).dirs # <<>>
    /\ PatternCompiles(Split(spec_in, "/")[2])
    /\ parsed.dirs = <<>>

(***************************************************************************)
(* C5: a malformed token (more than one '=', or a non-blank level part     *)
(* that names no level) alone yields no directive, and the directives of a *)
(* specification are those of the same specification without its          *)
(* malformed tokens.                                                       *)
(***************************************************************************)
C5_MalformedTokensDropped ==
    Returned =>
        /\ parsed.dirs = parse_logging_spec(WithoutMalformed(spec_in)).dirs
        /\ \A i \in 1..Len(SpecTokens(spec_in)) :
              Malformed(SpecTokens(spec_in)[i]) =>
                  parse_logging_spec(SpecTokens(spec_in)[i]).dirs = <<>>

\* a malformed token of each kind stands before a token that yields its
\* directive
C5_Witness ==
    /\ Returned
    /\ CountChar(spec_in, "/") <= 1
    /\ Len(parsed.dirs) = 1
    /\ LET toks == SpecTokens(spec_in)
       IN /\ Len(toks) = 3
          /\ CountChar(toks[1], "=") > 1
          /\ CountChar(toks[2], "=") = 1 /\ Malformed(toks[2])
          /\ ~Malformed(toks[3])
          /\ parsed.dirs = << ExpectedDirective(toks[3]) >>

(***************************************************************************)
(* C6: a specification of well-formed tokens (and at most one '/') yields  *)
(* one directive per non-empty token, in token order: a bare level gives   *)
(* (None, level), another bare token (token, max), 'module=' with a blank  *)
(* level (module, max), 'module=level' (module, level).                    *)
(***************************************************************************)
C6_OneDirectivePerToken ==
    ( /\ Returned
      /\ CountChar(spec_in, "/") <= 1
      /\ \A i \in 1..Len(SpecTokens(spec_in)) : ~Malformed(SpecTokens(spec_in)[i]) )
    => LET nonEmpty(tok) == Len(tok) # 0
           toks == SelectSeq(SpecTokens(spec_in), nonEmpty)
       IN parsed.dirs = [i \in 1..Len(toks) |-> ExpectedDirective(toks[i])]

\* three well-formed tokens: a bare level, a bare module and a module=level
C6_Witness ==
    /\ Returned
    /\ CountChar(spec_in, "/") <= 1
    /\ \A i \in 1..Len(SpecTokens(spec_in)) : ~Malformed(SpecTokens(spec_in)[i])
    /\ Len(parsed.dirs) = 3
    /\ \E i, j, k \in 1..3 :
          /\ parsed.dirs[i] = LogDirective(None, Warning)
          /\ parsed.dirs[j] = LogDirective(Some(<<"a">>), Trace)
          /\ parsed.dirs[k] = LogDirective(Some(<<"a", "b">>), Off)

\* layer i's log was invoked for call c and has returned or was unwound
Finished(c, i) == seen[c][i].n > 0 /\ seen[c][i].ret # Pending

(***************************************************************************)
(* C7: a log call whose record fails the level gate or the installed       *)
(* content filter returns Ok and does not call the nested sink; the nested *)
(* sink of every EnvLogger receives exactly the records that pass both     *)
(* gates, each once.                                                       *)
(***************************************************************************)
C7_SinkReceivesExactlyThePassing ==
    \A c \in 1..Len(seen) :
        \A i \in 1..Len(chain) :
            Finished(c, i) =>
                IF Dropped(chain[i], seen[c][i].info)
                THEN seen[c][i].ret = Ok /\ seen[c][i + 1].n = 0
                ELSE seen[c][i + 1].n = 1 /\ seen[c][i + 1].info = seen[c][i].info

(***************************************************************************)
(* C8: a log call whose record passes both gates calls the nested sink     *)
(* exactly once with the same record and key-value list and returns the    *)
(* sink's result, adding no failure of its own.                            *)
(***************************************************************************)
C8_ForwardsOnceReturnsSinkResult ==
    \A c \in 1..Len(seen) :
        \A i \in 1..Len(chain) :
            (Finished(c, i) /\ ~Dropped(chain[i], seen[c][i].info)) =>
                /\ seen[c][i + 1].n = 1
                /\ seen[c][i + 1].info = seen[c][i].info
                /\ seen[c][i + 1].val = seen[c][i].val
                /\ seen[c][i + 1].ret # Pending
                /\ seen[c][i].ret = seen[c][i + 1].ret

\* the log invocations of thread t that hold the borrow of its TL_BUF
Holders(t) ==
    { k \in 1..Len(frames[t]) : frames[t][k].pc \in {"in_drain", "drain_returned"} }

\* the log invocation on top of thread t is about to call borrow_mut while
\* an invocation below it holds the borrow
AttemptsWhileHeld(t) ==
    /\ frames[t] # <<>>
    /\ Top(t).pc = "enter"
    /\ ~IsSink(Top(t).layer)
    /\ ~Dropped(chain[Top(t).layer], Top(t).info)
    /\ tl_buf[t].borrowed

(***************************************************************************)
(* C11: each thread's scratch buffer is held by at most one log call in    *)
(* progress, it is empty and released when the thread's call has returned, *)
(* and no log call tries to acquire the buffer of its thread while another *)
(* log call of that thread holds it, nested EnvLoggers included.           *)
(***************************************************************************)
C11_BufferNeverAcquiredWhileHeld ==
    \A t \in Threads :
        /\ Cardinality(Holders(t)) <= 1
        /\ tl_buf[t].borrowed <=> Holders(t) # {}
        /\ frames[t] = <<>> => (~tl_buf[t].borrowed /\ tl_buf[t].text = <<>>)
        /\ ~AttemptsWhileHeld(t)
        /\ ~panicked[t]

\* the filter a specification asks for: the text behind its only '/', absent
\* without a '/', with more than one, or when the text does not compile
ExpectedFilter(spec) ==
    IF CountChar(spec, "/") # 1 THEN None
    ELSE LET k == CHOOSE i \in 1..Len(spec) : spec[i] = "/"
             pattern == SubSeq(spec, k + 1, Len(spec))
         IN IF PatternCompiles(pattern) THEN Some(pattern) ELSE None

IsPrefix(s, u) == Len(s) <= Len(u) /\ SubSeq(u, 1, Len(s)) = s

\* the builder's filter is that of its last parse call, None before any
FilterOfLastParse ==
    builder # Consumed =>
        IF parsed = NotYet
        THEN builder.filter = None
        ELSE builder.filter = ExpectedFilter(spec_in)

\* a call on the builder keeps the directives it holds and appends: filter
\* one directive, leaving the content filter; parse those of its specification
DirectivesOnlyGrow ==
    (builder # Consumed /\ builder' # Consumed) =>
        /\ IsPrefix(builder.directives, builder'.directives)
        /\ \/ /\ Len(builder'.directives) = Len(builder.directives) + 1
              /\ builder'.filter = builder.filter
           \/ /\ builder'.directives = builder.directives \o parse_logging_spec(spec_in').dirs
              /\ replaced' = builder.filter

(***************************************************************************)
(* C12: over any sequence of filter and parse calls on a builder the       *)
(* directive list only grows (earlier directives stay, new ones go behind  *)
(* them), and the content filter is the one of the last parse call: absent *)
(* if that specification has no filter segment, a pattern that does not    *)
(* compile or too many '/', whatever an earlier parse installed.           *)
(***************************************************************************)
C12_DirectivesGrowFilterReplaced ==
    []FilterOfLastParse /\ [][DirectivesOnlyGrow]_vars

\* the last parse call removed a filter that an earlier one had installed,
\* its own pattern not compiling or its '/' being too many, and the
\* directives of the earlier calls are still there
C12_Witness ==
    /\ builder # Consumed
    /\ parsed # NotYet
    /\ replaced.some
    /\ ~builder.filter.some
    /\ CountChar(spec_in, "/") >= 1
    /\ Len(builder.directives) > Len(parsed.dirs)

====
